---- MODULE Spec2Model ----
(***************************************************************************)
(* Model of src/app.py: the row classifier parse_my_data and the module-   *)
(* level dashboard script that derives the aggregates and the four-layer   *)
(* withdrawal waterfall.                                                   *)
(*                                                                         *)
(* Text.  A cell text is a sequence of one-character strings; a label is a *)
(* sequence of tokens, each token being one keyword of the source (written *)
(* in ASCII, the source string is given beside it) or a blank.  Python's   *)
(* `k in item_name` is membership of the token in the label.               *)
(*                                                                         *)
(* Numbers.  Python floats are modelled as exact numbers.  The two rates   *)
(* are entered in percent and divided by 100 (lines 176-177); to stay in   *)
(* the integers every amount of the waterfall (lines 182-246) is kept in   *)
(* units of 1/Scale, so x in the source is Scale * x here.                 *)
(***************************************************************************)
EXTENDS Integers, Sequences, FiniteSets

VARIABLES pc, n, row, section, assets, liabilities, df, params, plan

vars == <<pc, n, row, section, assets, liabilities, df, params, plan>>

\* Number of rows the row source supplies at most.
MaxRows == 2

\* Percent inputs are divided by 100 (lines 176, 177).
Scale == 100

------------------------------------------------------------------------------
(* Keywords of the source, in ASCII. *)
XiangMu == "xiangmu"      \* 項目
HeJi == "heji"            \* 合計
JingZhi == "jingzhi"      \* 淨值
HuiLv == "huilv"          \* 匯率
DiLiXing == "dilixing"    \* 抵利型
FangDai == "fangdai"      \* 房貸
XinDai == "xindai"        \* 信貸
JieKuan == "jiekuan"      \* 借款
XianJin == "xianjin"      \* 現金
KouDai == "koudai"        \* 口袋
HuoCun == "huocun"        \* 活存
ECaiKu == "ecaiku"        \* e財庫
MeiGu == "meigu"          \* 美股
TaiGu == "taigu"          \* 台股
HongHai == "honghai"      \* 鴻海
QiTa == "qita"            \* 其他
BeiYuanXianJin == "beiyuanxianjin"  \* 備援現金
FuZhai == "fuzhai"        \* 負債

Blank == " "

Digits == {"0", "1", "2", "3", "4", "5", "6", "7", "8", "9"}

DigitVal(c) ==
    CASE c = "0" -> 0 [] c = "1" -> 1 [] c = "2" -> 2 [] c = "3" -> 3
      [] c = "4" -> 4 [] c = "5" -> 5 [] c = "6" -> 6 [] c = "7" -> 7
      [] c = "8" -> 8 [] c = "9" -> 9

------------------------------------------------------------------------------
(* Python string operations on sequences. *)

\* s starts with pat at position i.
MatchAt(s, pat, i) ==
    /\ i + Len(pat) - 1 <= Len(s)
    /\ \A k \in 1..Len(pat) : s[i + k - 1] = pat[k]

\* str.replace(pat, ''): every non-overlapping occurrence, left to right.
RECURSIVE Replace(_, _)
Replace(s, pat) ==
    IF s = <<>> THEN <<>>
    ELSE IF MatchAt(s, pat, 1)
         THEN Replace(SubSeq(s, Len(pat) + 1, Len(s)), pat)
         ELSE <<Head(s)>> \o Replace(Tail(s), pat)

\* str.strip(): leading and trailing blanks removed.
RECURSIVE LStrip(_)
LStrip(s) == IF s # <<>> /\ Head(s) = Blank THEN LStrip(Tail(s)) ELSE s

RECURSIVE RStrip(_)
RStrip(s) ==
    IF s # <<>> /\ s[Len(s)] = Blank THEN RStrip(SubSeq(s, 1, Len(s) - 1)) ELSE s

Strip(s) == RStrip(LStrip(s))

\* `tok in item_name`
Contains(item_name, tok) == \E i \in 1..Len(item_name) : item_name[i] = tok

\* float(s) accepts, over the characters used here (digits, sign, letters,
\* '/', ',', '$', '%', blank): an optional sign followed by digits only.
IsFloatText(s) ==
    LET body == IF s # <<>> /\ Head(s) \in {"-", "+"} THEN Tail(s) ELSE s
    IN  /\ body # <<>>
        /\ \A i \in 1..Len(body) : body[i] \in Digits

RECURSIVE DigitsValue(_)
DigitsValue(s) ==
    IF s = <<>> THEN 0 ELSE 10 * DigitsValue(SubSeq(s, 1, Len(s) - 1)) + DigitVal(s[Len(s)])

FloatValue(s) ==
    IF Head(s) = "-" THEN 0 - DigitsValue(Tail(s))
    ELSE IF Head(s) = "+" THEN DigitsValue(Tail(s))
    ELSE DigitsValue(s)

------------------------------------------------------------------------------
(* Cells and rows supplied by the row source. *)

Num(v) == [isnum |-> TRUE, v |-> v, s |-> <<>>]
Txt(s) == [isnum |-> FALSE, v |-> 0, s |-> s]

EmptyCell == Txt(<<>>)

\* "NT$1,0" is 10 once cleaned; "N/A" is no number.
Cells ==
    { EmptyCell, Num(2), Num(0 - 1),
      Txt(<<"N", "T", "$", "1", ",", "0">>),
      Txt(<<"N", "/", "A">>) }

Labels ==
    { <<Blank>>,
      <<XiangMu>>,
      <<FangDai, HeJi>>,
      <<DiLiXing, XianJin>>,
      <<FangDai>>,
      <<HongHai>>,
      <<Blank, XianJin>> }

\* A row holds a label, then up to four cells; cell 3 (row[2]) and row[4]
\* are never read.
Rows ==
    {<<l>> : l \in Labels}
      \cup {<<l, a, EmptyCell, c>> : l \in Labels, a \in Cells, c \in Cells}

NoRow == <<>>

------------------------------------------------------------------------------
(* parse_my_data *)

\* row + [''] * (5 - len(row))
RECURSIVE Pad(_)
Pad(r) == IF Len(r) >= 5 THEN r ELSE Pad(Append(r, EmptyCell))

\* clean_num: the number, or raised = TRUE when float() raises ValueError.
clean_num(x) ==
    IF x.isnum THEN [raised |-> FALSE, v |-> x.v]
    ELSE LET x_str == Strip(Replace(Replace(Replace(x.s, <<",">>),
                                            <<"N", "T", "$">>), <<"%">>))
         IN  IF x_str # <<>>
             THEN IF IsFloatText(x_str)
                  THEN [raised |-> FALSE, v |-> FloatValue(x_str)]
                  ELSE [raised |-> TRUE, v |-> 0]
             ELSE [raised |-> FALSE, v |-> 0]

\* Excluded without the test of line 77.
ExcludedWithoutTotal(item_name) ==
    \/ item_name = <<>>
    \/ item_name = <<XiangMu>>
    \/ Contains(item_name, JingZhi)
    \/ Contains(item_name, HuiLv)

\* The four `continue` tests of lines 76-79.
Excluded(item_name) ==
    \/ item_name = <<>>
    \/ item_name = <<XiangMu>>
    \/ Contains(item_name, HeJi)
    \/ Contains(item_name, JingZhi)
    \/ Contains(item_name, HuiLv)

IsReserveRow(item_name) ==
    /\ Contains(item_name, DiLiXing)
    /\ ~Contains(item_name, FangDai)
    /\ Contains(item_name, XianJin)

SwitchesSection(item_name) ==
    /\ \/ Contains(item_name, FangDai)
       \/ Contains(item_name, XinDai)
       \/ Contains(item_name, JieKuan)
    /\ ~Contains(item_name, DiLiXing)

Category(item_name) ==
    IF \/ Contains(item_name, XianJin)
       \/ Contains(item_name, KouDai)
       \/ Contains(item_name, HuoCun)
       \/ Contains(item_name, ECaiKu)
    THEN XianJin
    ELSE IF Contains(item_name, MeiGu) \/ Contains(item_name, "VT")
              \/ Contains(item_name, "VOO")
    THEN MeiGu
    ELSE IF Contains(item_name, HongHai) \/ Contains(item_name, "0050")
              \/ Contains(item_name, TaiGu)
    THEN TaiGu
    ELSE QiTa

Max(a, b) == IF a >= b THEN a ELSE b
Min(a, b) == IF a <= b THEN a ELSE b

Record(cat, item, amount, shares, reserve) ==
    [cat |-> cat, item |-> item, amount |-> amount, shares |-> shares,
     reserve |-> reserve]

ReserveAmount(val_1, val_3) == Max(val_1, val_3)

AssetAmount(val_1, val_3) == IF val_3 > 0 THEN val_3 ELSE val_1

AssetShares(val_1, val_3) == IF val_3 > 0 THEN val_1 ELSE 0

LiabilityEmitted(amount) == amount > 0

\* NextSection recomputed per row instead of kept.
NextSectionPerRow(sec, item_name) ==
    IF SwitchesSection(item_name) THEN "liability" ELSE "asset"

\* Lines 94-95: the section after the switch test.
NextSection(sec, item_name) ==
    IF SwitchesSection(item_name) THEN "liability" ELSE sec

\* Lines 72-111: one iteration of `for row in raw_data`.
LoopBody(r) ==
    LET padded == Pad(r)
        item_name == Strip(padded[1])
        c_1 == clean_num(padded[2])
        c_3 == clean_num(padded[4])
        val_1 == c_1.v
        val_3 == c_3.v
        sec == NextSection(section, item_name)
    IN  /\ pc = "parse"
        /\ n < MaxRows
        /\ n' = n + 1
        /\ row' = r
        /\ UNCHANGED <<df, params, plan>>
        /\ IF Excluded(item_name)
           THEN UNCHANGED <<pc, section, assets, liabilities>>
           ELSE IF c_1.raised \/ c_3.raised
           THEN /\ pc' = "raised"
                /\ UNCHANGED <<section, assets, liabilities>>
           ELSE IF IsReserveRow(item_name)
           THEN /\ assets' = Append(assets,
                       Record(BeiYuanXianJin, item_name,
                              ReserveAmount(val_1, val_3), 0, TRUE))
                /\ UNCHANGED <<pc, section, liabilities>>
           ELSE /\ section' = sec
                /\ pc' = pc
                /\ IF sec = "asset"
                   THEN /\ assets' = Append(assets,
                               Record(Category(item_name), item_name,
                                      AssetAmount(val_1, val_3),
                                      AssetShares(val_1, val_3), FALSE))
                        /\ UNCHANGED liabilities
                   ELSE /\ liabilities' =
                               IF LiabilityEmitted(val_1)
                               THEN Append(liabilities,
                                      Record(FuZhai, item_name, 0 - val_1, 0, FALSE))
                               ELSE liabilities
                        /\ UNCHANGED assets

\* Line 113 and line 141: df = pd.DataFrame(assets + liabilities).
Return ==
    /\ pc = "parse"
    /\ df' = assets \o liabilities
    /\ pc' = "dashboard"
    /\ row' = NoRow
    /\ UNCHANGED <<n, section, assets, liabilities, params, plan>>

------------------------------------------------------------------------------
(* Module-level script: loading, aggregates and the waterfall. *)

\* Lines 126-139: the load returned an error string; df = pd.DataFrame().
LoadError ==
    /\ pc = "load"
    /\ df' = <<>>
    /\ pc' = "dashboard"
    /\ UNCHANGED <<n, row, section, assets, liabilities, params, plan>>

\* Lines 126, 140-141: the load returned rows; parse_my_data starts.
LoadOk ==
    /\ pc = "load"
    /\ pc' = "parse"
    /\ UNCHANGED <<n, row, section, assets, liabilities, df, params, plan>>

RECURSIVE SumAmount(_)
SumAmount(d) == IF d = <<>> THEN 0 ELSE Head(d).amount + SumAmount(Tail(d))

RECURSIVE SumShares(_)
SumShares(d) == IF d = <<>> THEN 0 ELSE Head(d).shares + SumShares(Tail(d))

IsPositive(r) == r.amount > 0
IsNegative(r) == r.amount < 0
IsBuffer(r) == r.reserve
IsGeneral(r) == ~r.reserve
IsNormalCash(r) == r.cat = XianJin /\ ~r.reserve
IsHonHai(r) == Contains(r.item, HongHai)

assets_df(d) == SelectSeq(d, IsPositive)
liabilities_df(d) == SelectSeq(d, IsNegative)
buffer_cash(d) == SumAmount(SelectSeq(assets_df(d), IsBuffer))
\* general_assets without the filter on the reserve flag.
general_assets_unfiltered(d) == SumAmount(assets_df(d))

general_assets(d) == SumAmount(SelectSeq(assets_df(d), IsGeneral))
normal_cash(d) == SumAmount(SelectSeq(assets_df(d), IsNormalCash))
total_assets(d) == general_assets(d) + buffer_cash(d)
total_liabilities(d) == SumAmount(liabilities_df(d))
net_worth(d) == total_assets(d) + total_liabilities(d)
total_honhai_shares(d) == SumShares(SelectSeq(assets_df(d), IsHonHai))

\* Sidebar inputs (lines 175-179); the two rates in percent.
Params ==
    [honhai_eps : {0, 7}, iwr_pct : {0, 4}, inflation_pct : {2},
     monthly_living : {0, 1}, monthly_debt : {0, 1}]

NoParams ==
    [honhai_eps |-> 0, iwr_pct |-> 0, inflation_pct |-> 0,
     monthly_living |-> 0, monthly_debt |-> 0]

NoPlan == [made |-> FALSE]

\* Lines 182-184, in units of 1/Scale.
annual_living_cost(p) == p.monthly_living * 12 * (Scale + p.inflation_pct)
annual_debt_cost(p) == p.monthly_debt * 12 * Scale
total_expense(p) == annual_living_cost(p) + annual_debt_cost(p)

\* Line 185.
dividend_income(shares, p) == shares * p.honhai_eps * Scale

\* Lines 186-188: gk_base = general_assets; limit = gk_base * iwr.
sell_stock_amount(gk_base, dividend, p) == Max(0, gk_base * p.iwr_pct - dividend)

\* use_normal_cash without the cap at the cash held.
use_normal_cash_uncapped(gap_1, cash) == IF gap_1 > 0 THEN gap_1 ELSE 0

\* Lines 192, 195-196.
use_normal_cash(gap_1, cash) == IF gap_1 > 0 THEN Min(gap_1, cash) ELSE 0

\* use_buffer_cash drawing gap_1 instead of gap_2.
use_buffer_cash_gap_1(gap_1, use_normal) ==
    LET gap_2 == gap_1 - use_normal
    IN  IF gap_1 > 0 /\ gap_2 > 0 THEN gap_1 ELSE 0

\* Lines 193, 195-199.
use_buffer_cash(gap_1, use_normal) ==
    LET gap_2 == gap_1 - use_normal
    IN  IF gap_1 > 0 /\ gap_2 > 0 THEN gap_2 ELSE 0

\* final_balance without the debt cost.
final_balance_without_debt(subtotal, living, debt) == subtotal - living

\* Lines 245-246.
final_balance(subtotal, living, debt) == subtotal - living - debt

\* Lines 182-199 and 245-246 on the aggregates of d.
Waterfall(d, p) ==
    LET dividend == dividend_income(total_honhai_shares(d), p)
        sell == sell_stock_amount(general_assets(d), dividend, p)
        funds_stage_1 == dividend + sell
        gap_1 == total_expense(p) - funds_stage_1
        use_normal == use_normal_cash(gap_1, normal_cash(d) * Scale)
        use_buffer == use_buffer_cash(gap_1, use_normal)
        subtotal == dividend + sell + use_normal + use_buffer
    IN  [made |-> TRUE,
         dividend_income |-> dividend,
         sell_stock_amount |-> sell,
         use_normal_cash |-> use_normal,
         use_buffer_cash |-> use_buffer,
         total_expense |-> total_expense(p),
         final_balance |-> final_balance(subtotal, annual_living_cost(p),
                                         annual_debt_cost(p))]

\* Lines 143-246: `if not df.empty:` with the sidebar inputs p.
Dashboard(p) ==
    /\ pc = "dashboard"
    /\ df # <<>>
    /\ params' = p
    /\ plan' = Waterfall(df, p)
    /\ pc' = "done"
    /\ UNCHANGED <<n, row, section, assets, liabilities, df>>

\* Lines 280-282: `else: pass`, nothing is computed.
NoData ==
    /\ pc = "dashboard"
    /\ df = <<>>
    /\ pc' = "nodata"
    /\ UNCHANGED <<n, row, section, assets, liabilities, df, params, plan>>

------------------------------------------------------------------------------
Init ==
    /\ pc = "load"
    /\ n = 0
    /\ row = NoRow
    /\ section = "asset"
    /\ assets = <<>>
    /\ liabilities = <<>>
    /\ df = <<>>
    /\ params = NoParams
    /\ plan = NoPlan

Next ==
    \/ LoadError
    \/ LoadOk
    \/ \E r \in Rows : LoopBody(r)
    \/ Return
    \/ \E p \in Params : Dashboard(p)
    \/ NoData

Spec == Init /\ [][Next]_vars

------------------------------------------------------------------------------
(* Vocabulary of the claims, stated from the specification's words. *)

\* The label of a row: trim(cell[0]).
LabelOf(r) == Strip(r[1])

\* Empty, the header token, or a total / net worth / exchange rate marker.
IsExcludedLabel(l) ==
    \/ l = <<>>
    \/ l = <<XiangMu>>
    \/ \E i \in 1..Len(l) : l[i] \in {HeJi, JingZhi, HuiLv}

\* A mortgage, unsecured loan or borrowing marker and no offset-type marker.
IsSwitchLabel(l) ==
    /\ \E i \in 1..Len(l) : l[i] \in {FangDai, XinDai, JieKuan}
    /\ \A i \in 1..Len(l) : l[i] # DiLiXing

\* The cell holds text that is no number once ',', 'NT$' and '%' are stripped.
IsMalformed(c) == ~c.isnum /\ c.s = <<"N", "/", "A">>

\* The loop consumed a row in this step.
RowStep == pc = "parse" /\ n' = n + 1

Ledger == assets \o liabilities

\* Sum of the positive amounts of the records that are not reserve.
RECURSIVE NonReserveAssets(_)
NonReserveAssets(d) ==
    IF d = <<>> THEN 0
    ELSE (IF Head(d).amount > 0 /\ ~Head(d).reserve THEN Head(d).amount ELSE 0)
           + NonReserveAssets(Tail(d))

\* Sum of the positive amounts of the reserve records.
RECURSIVE ReserveBalance(_)
ReserveBalance(d) ==
    IF d = <<>> THEN 0
    ELSE (IF Head(d).amount > 0 /\ Head(d).reserve THEN Head(d).amount ELSE 0)
           + ReserveBalance(Tail(d))

\* Sum of the positive amounts of the non-reserve cash records.
RECURSIVE OrdinaryCash(_)
OrdinaryCash(d) ==
    IF d = <<>> THEN 0
    ELSE (IF Head(d).amount > 0 /\ ~Head(d).reserve /\ Head(d).cat = XianJin
          THEN Head(d).amount ELSE 0)
           + OrdinaryCash(Tail(d))

\* The same ledger with every reserve record's amount raised by k.
WithReserveRaised(d, k) ==
    [i \in 1..Len(d) |->
        IF d[i].reserve THEN [d[i] EXCEPT !.amount = @ + k] ELSE d[i]]

Gap1 == plan.total_expense - (plan.dividend_income + plan.sell_stock_amount)
Gap2 == Gap1 - plan.use_normal_cash

ExpenseOf(p) ==
    p.monthly_living * 12 * (Scale + p.inflation_pct) + p.monthly_debt * 12 * Scale

------------------------------------------------------------------------------
(* C1: every emitted record has amount > 0 exactly when its category is not *)
(* Liability, and amount < 0 exactly when its category is Liability.        *)
C1_SignInvariant ==
    \A i \in 1..Len(Ledger) :
        /\ (Ledger[i].amount > 0) <=> (Ledger[i].cat # FuZhai)
        /\ (Ledger[i].amount < 0) <=> (Ledger[i].cat = FuZhai)

(* C2: a row that is not excluded and holds an unparseable numeric cell in  *)
(* cell[1] or cell[3] does not make the classifier raise.                   *)
C2_MalformedAbsorbed ==
    (/\ row # NoRow
     /\ ~IsExcludedLabel(LabelOf(row))
     /\ Len(row) >= 4
     /\ (IsMalformed(row[2]) \/ IsMalformed(row[4])))
        => pc # "raised"

(* C3: a row whose label is excluded emits no record and leaves the section *)
(* unchanged, whatever other markers the label holds and whatever its cells *)
(* hold; the pass goes on from the same state as if the row were absent.    *)
C3_ExcludedNoEffect ==
    [][(RowStep /\ IsExcludedLabel(LabelOf(row')))
          => (/\ section' = section
              /\ assets' = assets
              /\ liabilities' = liabilities
              /\ pc' = "parse")]_vars

C3_Witness ==
    /\ pc = "parse"
    /\ n = 2
    /\ row = <<<<FangDai, HeJi>>, EmptyCell, EmptyCell, Num(2)>>
    /\ section = "asset"
    /\ Len(assets) = 1
    /\ liabilities = <<>>

(* C4: the section starts as Asset; a non-excluded row with a mortgage,     *)
(* loan or borrowing marker and no offset-type marker, once processed, sets *)
(* it to Liability; it never returns to Asset; and while it is Liability    *)
(* every record emitted is a Liability record or a ReserveCash record.      *)
C4_StickySection ==
    [][/\ (pc = "load") => (section = "asset")
       /\ (section = "liability") => (section' = "liability")
       /\ (/\ RowStep
           /\ pc' = "parse"
           /\ ~IsExcludedLabel(LabelOf(row'))
           /\ IsSwitchLabel(LabelOf(row')))
             => (section' = "liability")
       /\ (section' = "liability" /\ assets' # assets)
             => (/\ Len(assets') = Len(assets) + 1
                 /\ SubSeq(assets', 1, Len(assets)) = assets
                 /\ assets'[Len(assets')].reserve
                 /\ assets'[Len(assets')].cat = BeiYuanXianJin)
       /\ (section' = "liability" /\ liabilities' # liabilities)
             => (/\ Len(liabilities') = Len(liabilities) + 1
                 /\ SubSeq(liabilities', 1, Len(liabilities)) = liabilities
                 /\ liabilities'[Len(liabilities')].cat = FuZhai
                 /\ ~liabilities'[Len(liabilities')].reserve)]_vars

C4_Witness ==
    /\ section = "liability"
    /\ n = 2
    /\ row # NoRow
    /\ LabelOf(row) = <<HongHai>>
    /\ assets = <<>>
    /\ Len(liabilities) = 2
    /\ liabilities[1].item = <<FangDai>>
    /\ liabilities[2].item = <<HongHai>>

(* C5 as stated: when the Layer-4 draw exceeds the reserve balance the      *)
(* final balance is negative, and it is >= 0 when the reserve sufficed.     *)
C5_ShortfallNegative ==
    plan.made =>
        /\ (plan.use_buffer_cash > ReserveBalance(df) * Scale)
              => (plan.final_balance < 0)
        /\ (plan.use_buffer_cash <= ReserveBalance(df) * Scale)
              => (plan.final_balance >= 0)

(* C5 amended: when the Layer-4 draw exceeds the reserve balance the final  *)
(* balance is 0, the shortfall showing only as reserveCashUsed greater than *)
(* reserveCash; and it is >= 0 when the reserve sufficed.                   *)
C5_ShortfallZeroBalance ==
    plan.made =>
        /\ (plan.use_buffer_cash > ReserveBalance(df) * Scale)
              => (plan.final_balance = 0)
        /\ (plan.use_buffer_cash <= ReserveBalance(df) * Scale)
              => (plan.final_balance >= 0)

C5_Witness ==
    /\ plan.made
    /\ ReserveBalance(df) > 0
    /\ plan.use_normal_cash > 0
    /\ plan.use_buffer_cash > ReserveBalance(df) * Scale
    /\ plan.final_balance = 0

(* C6: when no record survives classification the waterfall still runs and *)
(* yields an all-zero plan.  Stated for inputs of at least one row, so that *)
(* the rows were classified and every one of them was excluded or dropped.  *)
C6_EmptyYieldsZeroPlan ==
    (pc \in {"done", "nodata"} /\ n >= 1 /\ df = <<>>)
        => (/\ plan.made
            /\ plan.dividend_income = 0
            /\ plan.sell_stock_amount = 0
            /\ plan.use_normal_cash = 0
            /\ plan.use_buffer_cash = 0
            /\ plan.final_balance = 0)

(* C7: ordinary cash is drawn only if gap1 > 0, reserve cash only if        *)
(* gap1 - ordinaryCashUsed > 0, and never more ordinary cash than is held.  *)
C7_LayerOrdering ==
    plan.made =>
        /\ (plan.use_normal_cash > 0) => (Gap1 > 0)
        /\ (plan.use_buffer_cash > 0) => (Gap2 > 0)
        /\ plan.use_normal_cash <= OrdinaryCash(df) * Scale

C7_Witness ==
    /\ plan.made
    /\ plan.use_normal_cash > 0
    /\ plan.use_normal_cash = OrdinaryCash(df) * Scale
    /\ plan.use_buffer_cash > 0

(* C8: finalBalance = dividendIncome + soldAssetAmount + ordinaryCashUsed   *)
(* + reserveCashUsed - totalExpense with totalExpense = living * 12 *       *)
(* (1 + inflation) + debt * 12; and when gap1 <= 0 both cash layers are 0   *)
(* and finalBalance = -gap1.                                                *)
C8_Conservation ==
    plan.made =>
        /\ plan.total_expense = ExpenseOf(params)
        /\ plan.final_balance =
              plan.dividend_income + plan.sell_stock_amount
                + plan.use_normal_cash + plan.use_buffer_cash - ExpenseOf(params)
        /\ (Gap1 <= 0)
              => (/\ plan.use_normal_cash = 0
                  /\ plan.use_buffer_cash = 0
                  /\ plan.final_balance = 0 - Gap1)

C8_Witness ==
    /\ plan.made
    /\ params.monthly_debt > 0
    /\ params.monthly_living > 0
    /\ Gap1 < 0
    /\ plan.final_balance > 0

(* C9: when gap2 > 0 the reserve draw equals gap2 even above the reserve    *)
(* balance; the sale is max(0, generalAssets * rate - dividendIncome) over  *)
(* the non-reserve assets; and the plan is the same for a ledger that       *)
(* differs only in its reserve amounts.                                     *)
C9_ReserveUncapped ==
    plan.made =>
        /\ (Gap2 > 0) => (plan.use_buffer_cash = Gap2)
        /\ plan.sell_stock_amount =
              Max(0, NonReserveAssets(df) * params.iwr_pct - plan.dividend_income)
        /\ \A k \in {1, 5} : Waterfall(WithReserveRaised(df, k), params) = plan

C9_Witness ==
    /\ plan.made
    /\ ReserveBalance(df) > 0
    /\ plan.sell_stock_amount > 0
    /\ Gap2 > ReserveBalance(df) * Scale
    /\ plan.use_buffer_cash = Gap2

(* C10: with 0 <= rate <= 1 and dividendPerShare >= 0, soldAssetAmount +    *)
(* ordinaryCashUsed never exceeds generalAssets.  Stated for ledgers whose  *)
(* records all hold a positive amount and a share count >= 0.               *)
C10_NoDoubleCount ==
    (/\ plan.made
     /\ \A i \in 1..Len(df) : df[i].amount > 0 /\ df[i].shares >= 0
     /\ params.iwr_pct >= 0
     /\ params.iwr_pct <= 100
     /\ params.honhai_eps >= 0)
        => (plan.sell_stock_amount + plan.use_normal_cash
              <= NonReserveAssets(df) * Scale)

====
